---- MODULE Spec2Model ----
\* SyncZenith payroll backend (src/main.py, src/schemas.py): the document
\* store's collections, the payroll calculator, the payroll run lifecycle
\* (create, process, send) and the listing/reporting filters.
EXTENDS Integers, Sequences, FiniteSets, TLC

VARIABLES
    employee,        \* db["employee"]: sequence of documents, _id = ObjectIds[index]
    attendance,      \* db["attendance"]
    hrmsconnection,  \* db["hrmsconnection"]
    payrollsettings, \* db["payrollsettings"]
    payroll,         \* db["payroll"]: sequence of run documents
    payslip,         \* db["payslip"]: sequence of payslip documents
    pc,              \* per request thread: where its handler stands
    loc,             \* per request thread: the handler's local variables
    resp,            \* the response the last step returned, if any
    slipRun,         \* history: slipRun[k] = _id of the run payslip k was generated from
    calls            \* history: calls[r] = process calls on run r that have returned

vars == <<employee, attendance, hrmsconnection, payrollsettings, payroll, payslip,
          pc, loc, resp, slipRun, calls>>

\* ---------------------------------------------------------------------------
\* Python float arithmetic (IEEE-754 binary64, round-to-nearest, ties-to-even)
\* on finite non-negative values. A float is [m |-> mantissa, e |-> exponent]
\* with value m * 2^e; the mantissa is a natural number of exactly MantBits
\* bits (or zero), held as a little-endian sequence of base-2^LimbBits limbs
\* because TLC's integers are 32 bits wide.
\* ---------------------------------------------------------------------------
LimbBits == 14

MantBits == 53

RECURSIVE Pow2(_)
Pow2(k) == IF k = 0 THEN 1 ELSE 2 * Pow2(k - 1)

Base == Pow2(LimbBits)

RECURSIVE Trim(_)
Trim(a) == IF a = <<>> THEN <<>>
           ELSE IF a[Len(a)] = 0 THEN Trim(SubSeq(a, 1, Len(a) - 1)) ELSE a

Limb(a, i) == IF i <= Len(a) THEN a[i] ELSE 0

MaxOf(x, y) == IF x >= y THEN x ELSE y

MinOf(x, y) == IF x <= y THEN x ELSE y

RECURSIVE AddFrom(_, _, _, _)
AddFrom(a, b, i, carry) ==
    IF i > MaxOf(Len(a), Len(b))
    THEN (IF carry = 0 THEN <<>> ELSE <<carry>>)
    ELSE LET s == Limb(a, i) + Limb(b, i) + carry
         IN  <<s % Base>> \o AddFrom(a, b, i + 1, s \div Base)

BigAdd(a, b) == AddFrom(a, b, 1, 0)

RECURSIVE SubFrom(_, _, _, _)
SubFrom(a, b, i, borrow) ==
    IF i > Len(a) THEN <<>>
    ELSE LET s == Limb(a, i) - Limb(b, i) - borrow
         IN  IF s < 0 THEN <<s + Base>> \o SubFrom(a, b, i + 1, 1)
                      ELSE <<s>> \o SubFrom(a, b, i + 1, 0)

\* a - b for a >= b
BigSub(a, b) == Trim(SubFrom(a, b, 1, 0))

RECURSIVE LessFrom(_, _, _)
LessFrom(a, b, i) ==
    IF i = 0 THEN FALSE
    ELSE IF a[i] # b[i] THEN a[i] < b[i] ELSE LessFrom(a, b, i - 1)

BigLess(a, b) == IF Len(a) # Len(b) THEN Len(a) < Len(b) ELSE LessFrom(a, b, Len(a))

RECURSIVE ScaleFrom(_, _, _, _)
ScaleFrom(a, k, i, carry) ==
    IF i > Len(a)
    THEN (IF carry = 0 THEN <<>> ELSE <<carry>>)
    ELSE LET s == a[i] * k + carry
         IN  <<s % Base>> \o ScaleFrom(a, k, i + 1, s \div Base)

\* a * k for 0 <= k < Base
BigScale(a, k) == Trim(ScaleFrom(a, k, 1, 0))

Zeros(n) == [i \in 1..n |-> 0]

RECURSIVE MulFrom(_, _, _)
MulFrom(a, b, i) ==
    IF i > Len(b) THEN <<>>
    ELSE BigAdd(IF b[i] = 0 THEN <<>> ELSE Zeros(i - 1) \o BigScale(a, b[i]),
                MulFrom(a, b, i + 1))

BigMul(a, b) == Trim(MulFrom(a, b, 1))

RECURSIVE BitsOf(_)
BitsOf(n) == IF n = 0 THEN 0 ELSE 1 + BitsOf(n \div 2)

BitLen(a) == IF a = <<>> THEN 0 ELSE (Len(a) - 1) * LimbBits + BitsOf(a[Len(a)])

\* a * 2^k
Shl(a, k) ==
    IF a = <<>> THEN <<>>
    ELSE Zeros(k \div LimbBits) \o BigScale(a, Pow2(k % LimbBits))

\* floor(a / 2^k)
Shr(a, k) ==
    LET q == k \div LimbBits
        r == k % LimbBits
        n == Len(a) - q
    IN  IF n <= 0 THEN <<>>
        ELSE Trim([i \in 1..n |->
                     (Limb(a, q + i) \div Pow2(r))
                       + (Limb(a, q + i + 1) % Pow2(r)) * Pow2(LimbBits - r)])

IsOdd(a) == a # <<>> /\ a[1] % 2 = 1

BigOne == <<1>>

FZero == [m |-> <<>>, e |-> 0]

\* Rounding to nearest, ties to even: the quotient q goes up when the
\* remainder is above half, or is half with q odd.
RoundsUp(q, rem, half) == BigLess(half, rem) \/ (rem = half /\ IsOdd(q))

\* The rounded quotient may have one bit too many.
Renormalize(q, e) ==
    IF BitLen(q) > MantBits THEN [m |-> Shr(q, 1), e |-> e + 1] ELSE [m |-> q, e |-> e]

RoundQuotient(n, q, s, e) ==
    Renormalize(IF RoundsUp(q, BigSub(n, Shl(q, s)), Shl(BigOne, s - 1))
                THEN BigAdd(q, BigOne) ELSE q,
                e + s)

RoundLength(n, len, e) ==
    IF len = 0 THEN FZero
    ELSE IF len <= MantBits
    THEN [m |-> Shl(n, MantBits - len), e |-> e - (MantBits - len)]
    ELSE RoundQuotient(n, Shr(n, len - MantBits), len - MantBits, e)

\* The float nearest to n * 2^e (ties to even), for a natural number n.
RoundFloat(n, e) == RoundLength(n, BitLen(n), e)

\* x + y
FAdd(x, y) ==
    IF x.m = <<>> THEN y
    ELSE IF y.m = <<>> THEN x
    ELSE RoundFloat(BigAdd(Shl(x.m, x.e - MinOf(x.e, y.e)),
                           Shl(y.m, y.e - MinOf(x.e, y.e))),
                    MinOf(x.e, y.e))

\* x - y for x >= y >= 0
FSub(x, y) ==
    IF y.m = <<>> THEN x
    ELSE RoundFloat(BigSub(Shl(x.m, x.e - MinOf(x.e, y.e)),
                           Shl(y.m, y.e - MinOf(x.e, y.e))),
                    MinOf(x.e, y.e))

\* x * y
FMul(x, y) == RoundFloat(BigMul(x.m, y.m), x.e + y.e)

RECURSIVE BigOfInt(_)
BigOfInt(n) == IF n = 0 THEN <<>> ELSE <<n % Base>> \o BigOfInt(n \div Base)

\* float(n) for an integer 0 <= n < 2^31
FloatOfInt(n) == RoundFloat(BigOfInt(n), 0)

\* ---------------------------------------------------------------------------
\* Values
\* ---------------------------------------------------------------------------
\* Python's None, as a record so that it can be compared with dicts.
None == [py |-> "None"]

\* Python's {} (a dict with no key).
EmptyDict == <<>>

\* dict.get(key, default)
DictGet(d, key, default) == IF key \in DOMAIN d THEN d[key] ELSE default

\* The float literals 0.12 and 0.4 of create_payroll.
DeductionRate == [m |-> <<7864, 11796, 1310, 1966>>, e |-> -56]

HraRate == [m |-> <<6554, 9830, 6553, 1638>>, e |-> -54]

DefaultBasic == 30000

DefaultEpfPercent == 12

\* 0.75
DefaultEsiPercent == [m |-> <<0, 0, 0, 1536>>, e |-> -53]

\* datetime.date(y, m, d)
Date(y, m, d) == [y |-> y, m |-> m, d |-> d]

DateLess(a, b) ==
    \/ a.y < b.y
    \/ a.y = b.y /\ a.m < b.m
    \/ a.y = b.y /\ a.m = b.m /\ a.d < b.d

\* The strings the store hands out as document ids: the n-th document of a
\* collection gets str(_id) = ObjectIds[n]. Any other string is not an ObjectId.
ObjectIds == <<"id1", "id2", "id3", "id4", "id5", "id6", "id7", "id8">>

\* oid(id_str): the document number, or 0 when ObjectId(id_str) raises
\* (HTTPException 400 "Invalid id").
oid(id_str) ==
    IF \E n \in 1..Len(ObjectIds) : ObjectIds[n] = id_str
    THEN CHOOSE n \in 1..Len(ObjectIds) : ObjectIds[n] = id_str
    ELSE 0

\* create_document(collection, data): insert_one of the model's fields; the new
\* document is the last of the collection and its id is the next ObjectId.
create_document(collection, data) == Append(collection, data)

\* find_one({"_id": n}): the collection has document number n.
Exists(collection, n) == n >= 1 /\ n <= Len(collection)

\* {"$gte": gte, "$lt": lt} on a date
Between(d, cond) == ~DateLess(d, cond.gte) /\ DateLess(d, cond.lt)

\* A document matches a filter dict when it has every key, with that value or,
\* for the one key the handlers filter by range ("month"), within that range.
Matches(doc, filt) ==
    \A k \in DOMAIN filt :
        k \in DOMAIN doc /\ (IF k = "month" THEN Between(doc[k], filt[k]) ELSE doc[k] = filt[k])

\* d[k] = v on a dict
WithKey(d, k, v) == [x \in DOMAIN d \cup {k} |-> IF x = k THEN v ELSE d[x]]

\* ---------------------------------------------------------------------------
\* Schemas (src/schemas.py): a model built from a request body, defaults filled
\* in, as model_dump() gives it.
\* ---------------------------------------------------------------------------
EmployeeSchema(body) ==
    [name           |-> body.name,
     department     |-> DictGet(body, "department", None),
     email          |-> body.email,
     paymentType    |-> DictGet(body, "paymentType", "Monthly"),
     payrollProfile |-> DictGet(body, "payrollProfile", None),
     status         |-> DictGet(body, "status", "Active"),
     source         |-> DictGet(body, "source", "Manual")]

PayrollProfile(body) ==
    [basic    |-> body.basic,
     hra      |-> body.hra,
     ta       |-> DictGet(body, "ta", FZero),
     bonus    |-> DictGet(body, "bonus", FZero),
     epf      |-> DictGet(body, "epf", FZero),
     esi      |-> DictGet(body, "esi", FZero),
     totalCTC |-> body.totalCTC]

PayrollEmployeeItem(employee_id, earnings, deductions, net) ==
    [employee_id |-> employee_id, earnings |-> earnings,
     deductions |-> deductions, net |-> net]

PayrollSchema(month, status, type, employees) ==
    [month |-> month, status |-> status, type |-> type, employees |-> employees]

PayslipSchema(employeeId, payrollMonth, grossSalary, deductions, netSalary) ==
    [employeeId |-> employeeId, payrollMonth |-> payrollMonth,
     grossSalary |-> grossSalary, deductions |-> deductions,
     netSalary |-> netSalary, pdfPath |-> None, sent |-> FALSE]

AttendanceSchema(employeeId, presentDays, leaveDays, overtimeHours) ==
    [employeeId |-> employeeId, presentDays |-> presentDays,
     leaveDays |-> leaveDays, overtimeHours |-> overtimeHours]

PayrollSettings(body) ==
    [epf_percent      |-> DictGet(body, "epf_percent", FloatOfInt(DefaultEpfPercent)),
     esi_percent      |-> DictGet(body, "esi_percent", DefaultEsiPercent),
     tax_rules        |-> DictGet(body, "tax_rules", EmptyDict),
     payslip_logo_url |-> DictGet(body, "payslip_logo_url", None),
     payslip_header   |-> DictGet(body, "payslip_header", "SyncZenith Payslip")]

\* ---------------------------------------------------------------------------
\* Bounds of the model
\* ---------------------------------------------------------------------------
MaxEmployees == 2

MaxRuns == 2

MaxPayslips == 3

MaxCalls == 2

NumThreads == 2

Threads == 1..NumThreads

\* ---------------------------------------------------------------------------
\* Requests in flight
\* ---------------------------------------------------------------------------
Idle == [handler |-> "none"]

Response(op, req, code, body) == [op |-> op, req |-> req, code |-> code, body |-> body]

\* resp holds the response that the last step returned, NoResponse when the
\* last step returned none.
NoResponse == Response("none", EmptyDict, 0, EmptyDict)

Return(w, op, req, code, body) ==
    /\ resp' = Response(op, req, code, body)
    /\ pc' = [pc EXCEPT ![w] = "idle"]
    /\ loc' = [loc EXCEPT ![w] = Idle]

store == <<employee, attendance, hrmsconnection, payrollsettings, payroll, payslip>>

history == <<slipRun, calls>>

threads == <<pc, loc>>

\* ---------------------------------------------------------------------------
\* POST /api/employees
\* ---------------------------------------------------------------------------
create_employee(body) ==
    /\ employee' = create_document(employee, EmployeeSchema(body))
    /\ resp' = Response("create_employee", body, 200,
                        [_id |-> ObjectIds[Len(employee) + 1]])
    /\ UNCHANGED <<attendance, hrmsconnection, payrollsettings, payroll, payslip,
                   threads, history>>

\* ---------------------------------------------------------------------------
\* POST /api/payroll: the payroll calculator and the creation of a Draft run
\* ---------------------------------------------------------------------------
Raised(what) == [raised |-> what]

HasRaised(r) == "raised" \in DOMAIN r

\* x.get(key, default) of a value read from a document: None has no get().
PyGet(x, key, default) ==
    IF x = None THEN Raised("AttributeError") ELSE DictGet(x, key, default)

\* A calculator that counts the profile's transport allowance and bonus as
\* earnings.
LineItemWithAllowances(e, eid) ==
    IF DictGet(e, "payrollProfile", EmptyDict) = None THEN Raised("AttributeError")
    ELSE PayrollEmployeeItem(eid,
           FAdd(FAdd(e.payrollProfile.basic, e.payrollProfile.hra),
                FAdd(e.payrollProfile.ta, e.payrollProfile.bonus)),
           FMul(FAdd(FAdd(e.payrollProfile.basic, e.payrollProfile.hra),
                     FAdd(e.payrollProfile.ta, e.payrollProfile.bonus)), DeductionRate),
           FSub(FAdd(FAdd(e.payrollProfile.basic, e.payrollProfile.hra),
                     FAdd(e.payrollProfile.ta, e.payrollProfile.bonus)),
                FMul(FAdd(FAdd(e.payrollProfile.basic, e.payrollProfile.hra),
                          FAdd(e.payrollProfile.ta, e.payrollProfile.bonus)), DeductionRate)))

\* Lines 174-179: the line item of employee document e, or what was raised.
LineItem(e, eid) ==
    LET basic == PyGet(DictGet(e, "payrollProfile", EmptyDict), "basic",
                       FloatOfInt(DefaultBasic))
    IN  IF HasRaised(basic) THEN basic
        ELSE LET hra        == PyGet(DictGet(e, "payrollProfile", EmptyDict), "hra",
                                     FMul(basic, HraRate))
                 gross      == FAdd(basic, hra)
                 deductions == FMul(gross, DeductionRate)
                 net        == FSub(gross, deductions)
             IN  PayrollEmployeeItem(eid, gross, deductions, net)

\* Lines 168-179: the loop over req.employee_ids from position i on.
RECURSIVE ItemsFrom(_, _, _)
ItemsFrom(employee_ids, i, items) ==
    IF i > Len(employee_ids) THEN [items |-> items]
    ELSE LET eid == employee_ids[i]
             n   == oid(eid)
         IN  IF n = 0 THEN Raised("Invalid id")
             ELSE IF ~Exists(employee, n) THEN ItemsFrom(employee_ids, i + 1, items)
             ELSE LET it == LineItem(employee[n], eid)
                  IN  IF HasRaised(it) THEN it
                      ELSE ItemsFrom(employee_ids, i + 1, Append(items, it))

\* Line 180: the status of a new run.
DraftStatus == "Draft"

\* An HTTPException carries its status; any other exception is a 500.
StatusOf(raised) == IF raised = "Invalid id" THEN 400 ELSE 500

create_payroll(req) ==
    /\ LET r == ItemsFrom(req.employee_ids, 1, <<>>)
       IN  IF HasRaised(r)
           THEN /\ resp' = Response("create_payroll", req, StatusOf(r.raised), [detail |-> r.raised])
                /\ UNCHANGED <<payroll, calls>>
           ELSE /\ payroll' = create_document(payroll,
                                 PayrollSchema(req.month, DraftStatus, req.type, r.items))
                /\ calls' = Append(calls, 0)
                /\ resp' = Response("create_payroll", req, 200,
                                    [_id |-> ObjectIds[Len(payroll) + 1], status |-> "Draft"])
    /\ UNCHANGED <<employee, attendance, hrmsconnection, payrollsettings, payslip,
                   threads, slipRun>>

\* ---------------------------------------------------------------------------
\* POST /api/payroll/{payroll_id}/process. The handler runs in three kinds of
\* step: process_begin (find_one and the status update), process_generate (one
\* turn of the payslip loop) and process_return. find_one reads the run's month
\* and line items, which no handler ever changes, so it makes no difference
\* what other requests do between it and the update: the two are one step.
\* ---------------------------------------------------------------------------
\* A process with an idempotency guard, which the code does not have: nothing to
\* generate unless the run is still Draft.
ItemsOfDraftOnly(run) == IF run.status = "Draft" THEN run.employees ELSE <<>>

\* An update that also empties the run's line items.
SetStatusAndItems(run, status) == [run EXCEPT !.status = status, !.employees = <<>>]

\* Lines 230 and 274: update_one(..., {"$set": {"status": status}}) on a run.
SetStatus(run, status) == [run EXCEPT !.status = status]

\* Line 233: the line items the loop will go over, as find_one read them.
ItemsToProcess(run) == run.employees

\* A payslip whose grossSalary is taken from the line item's net.
PayslipOfNet(p, it) ==
    PayslipSchema(it.employee_id, p.month, it.net, it.deductions, it.net)

\* Lines 234-240: the payslip of line item it of run p.
PayslipOf(p, it) ==
    PayslipSchema(it.employee_id, p.month, it.earnings, it.deductions, it.net)

\* A process that resets the run to Draft.
ProcessedAsDraft == "Draft"

\* Line 230: the status process gives the run.
ProcessedStatus == "Processed"

\* Payslips that the process calls in flight have still to create.
RECURSIVE Pending(_)
Pending(ws) ==
    IF ws = {} THEN 0
    ELSE LET w == CHOOSE x \in ws : TRUE
             n == IF pc[w] = "process_generate"
                  THEN Len(loc[w].p.employees) - loc[w].generated
                  ELSE 0
         IN  n + Pending(ws \ {w})

\* Process calls in flight on run n.
InFlight(n) ==
    Cardinality({w \in Threads : pc[w] = "process_generate" /\ loc[w].p._id = n})

\* The model's bounds allow one more process call on run n.
RoomToProcess(n) ==
    /\ Len(payslip) + Pending(Threads) + Len(ItemsToProcess(payroll[n])) <= MaxPayslips
    /\ calls[n] + InFlight(n) < MaxCalls

\* Lines 226-232: p = find_one (400 on a malformed id, 404 when absent), the
\* update of the status, generated = 0. p keeps the fields the handler reads.
process_begin(w, payroll_id) ==
    /\ pc[w] = "idle"
    /\ LET n == oid(payroll_id)
       IN  IF n = 0
           THEN /\ Return(w, "process_payroll", [payroll_id |-> payroll_id], 400, [detail |-> "Invalid id"])
                /\ UNCHANGED payroll
           ELSE IF ~Exists(payroll, n)
           THEN /\ Return(w, "process_payroll", [payroll_id |-> payroll_id], 404,
                       [detail |-> "Payroll not found"])
                /\ UNCHANGED payroll
           ELSE /\ RoomToProcess(n)
                /\ payroll' = [payroll EXCEPT ![n] = SetStatus(@, ProcessedStatus)]
                /\ pc' = [pc EXCEPT ![w] = "process_generate"]
                /\ loc' = [loc EXCEPT ![w] =
                             [handler |-> "process_payroll", payroll_id |-> payroll_id,
                              p |-> [_id |-> n, month |-> payroll[n].month,
                                     employees |-> ItemsToProcess(payroll[n])],
                              generated |-> 0]]
                /\ resp' = NoResponse
    /\ UNCHANGED <<employee, attendance, hrmsconnection, payrollsettings, payslip, history>>

\* Lines 233-242: one turn of the loop over p["employees"].
process_generate(w) ==
    /\ pc[w] = "process_generate"
    /\ loc[w].generated < Len(loc[w].p.employees)
    /\ payslip' = create_document(payslip,
                      PayslipOf(loc[w].p, loc[w].p.employees[loc[w].generated + 1]))
    /\ slipRun' = Append(slipRun, loc[w].p._id)
    /\ loc' = [loc EXCEPT ![w].generated = @ + 1]
    /\ resp' = NoResponse
    /\ UNCHANGED <<employee, attendance, hrmsconnection, payrollsettings, payroll,
                   pc, calls>>

\* Line 243: the loop is over.
process_return(w) ==
    /\ pc[w] = "process_generate"
    /\ loc[w].generated = Len(loc[w].p.employees)
    /\ Return(w, "process_payroll", [payroll_id |-> loc[w].payroll_id], 200,
              [status |-> "Processed", payslips |-> loc[w].generated])
    /\ calls' = [calls EXCEPT ![loc[w].p._id] = @ + 1]
    /\ UNCHANGED <<store, slipRun>>

\* ---------------------------------------------------------------------------
\* POST /api/payslips/send, in three kinds of step: send_begin (find_one and
\* the cursor's query), send_mark (one turn of the loop) and send_return (the
\* update of the run's status). As in process, find_one reads only the run's
\* month, so it and the query that follows are one step.
\* ---------------------------------------------------------------------------
\* Python truthiness of an Optional[str]: None and "" are both false, and the
\* handlers only ever test it, so "" stands for both.
Truthy(s) == s # ""

\* find(filt): the numbers of the matching documents, in insertion order.
RECURSIVE FindFrom(_, _, _)
FindFrom(collection, filt, i) ==
    IF i > Len(collection) THEN <<>>
    ELSE (IF Matches(collection[i], filt) THEN <<i>> ELSE <<>>)
           \o FindFrom(collection, filt, i + 1)

\* A send without a run id that selects only the payslips not yet sent.
UnsentPayslips == [sent |-> FALSE]

\* Line 263: the filter of a send without a run id.
AllPayslips == EmptyDict

\* A send for run p that selects only the payslips of the month not yet sent.
UnsentOfMonth(p) == [payrollMonth |-> p.month, sent |-> FALSE]

\* A send for run p that forgets the month.
NoMonthFilter(p) == EmptyDict

\* Line 268: the filter of a send for run p.
MonthFilter(p) == [payrollMonth |-> p.month]

\* Line 274: the status send gives the run.
SentStatus == "Sent"

\* Lines 263-270: filt, count = 0 and the cursor's query. The collection is far
\* below the driver's first batch (101 documents), so the first fetch holds
\* every document that matches at that moment; the loop then takes
\* cursor[count + 1], as count goes up by one with every document.
SendCursor(w, req, filt) ==
    /\ pc' = [pc EXCEPT ![w] = "send_mark"]
    /\ loc' = [loc EXCEPT ![w] =
                 [handler |-> "send_payslips", req |-> req,
                  cursor |-> FindFrom(payslip, filt, 1), count |-> 0]]
    /\ resp' = NoResponse

send_begin(w, req) ==
    /\ pc[w] = "idle"
    /\ IF Truthy(req.payroll_id)
       THEN LET n == oid(req.payroll_id)
            IN  IF n = 0
                THEN Return(w, "send_payslips", req, 400, [detail |-> "Invalid id"])
                ELSE IF ~Exists(payroll, n)
                THEN Return(w, "send_payslips", req, 404, [detail |-> "Payroll not found"])
                ELSE SendCursor(w, req, MonthFilter(payroll[n]))
       ELSE SendCursor(w, req, AllPayslips)
    /\ UNCHANGED <<store, history>>

\* A send that flips the flag.
ToggleSent(ps) == [ps EXCEPT !.sent = ~@]

\* Line 271: update_one(..., {"$set": {"sent": True}}) on a payslip.
MarkSent(ps) == [ps EXCEPT !.sent = TRUE]

\* Lines 270-272: one turn of the loop.
send_mark(w) ==
    /\ pc[w] = "send_mark"
    /\ loc[w].count < Len(loc[w].cursor)
    /\ payslip' = [payslip EXCEPT ![loc[w].cursor[loc[w].count + 1]] = MarkSent(@)]
    /\ loc' = [loc EXCEPT ![w].count = @ + 1]
    /\ resp' = NoResponse
    /\ UNCHANGED <<employee, attendance, hrmsconnection, payrollsettings, payroll,
                   pc, history>>

\* Lines 273-275.
send_return(w) ==
    /\ pc[w] = "send_mark"
    /\ loc[w].count = Len(loc[w].cursor)
    /\ IF Truthy(loc[w].req.payroll_id)
       THEN payroll' = [payroll EXCEPT ![oid(loc[w].req.payroll_id)] = SetStatus(@, SentStatus)]
       ELSE UNCHANGED payroll
    /\ Return(w, "send_payslips", loc[w].req, 200,
              [status |-> "sent", count |-> loc[w].count, via |-> loc[w].req.via])
    /\ UNCHANGED <<employee, attendance, hrmsconnection, payrollsettings, payslip,
                   history>>

\* ---------------------------------------------------------------------------
\* POST /api/hrms/connect, in two steps: connect_find (find_one) and
\* connect_write (update_one or create_document, and the return).
\* ---------------------------------------------------------------------------
\* datetime.utcnow(): the model keeps no clock, every timestamp is this value.
utcnow == [py |-> "datetime"]

HRMSConnectionSchema(body) ==
    [connected |-> DictGet(body, "connected", FALSE),
     apiKey    |-> DictGet(body, "apiKey", None),
     lastSync  |-> DictGet(body, "lastSync", None)]

\* A dict with the keys of both, the values of the second winning ($set).
SetFields(doc, fields) ==
    [k \in DOMAIN doc \cup DOMAIN fields |-> IF k \in DOMAIN fields THEN fields[k] ELSE doc[k]]

\* Lines 105-106: lastSync is set, then existing = find_one({}).
connect_find(w, body) ==
    /\ pc[w] = "idle"
    /\ pc' = [pc EXCEPT ![w] = "connect_write"]
    /\ loc' = [loc EXCEPT ![w] =
                 [handler |-> "connect_hrms", req |-> body,
                  conn |-> [HRMSConnectionSchema(body) EXCEPT
                              !.lastSync = IF HRMSConnectionSchema(body).connected
                                           THEN utcnow ELSE None],
                  existing |-> IF hrmsconnection = <<>> THEN 0 ELSE 1]]
    /\ resp' = NoResponse
    /\ UNCHANGED <<store, history>>

\* Lines 107-112
connect_write(w) ==
    /\ pc[w] = "connect_write"
    /\ IF loc[w].existing # 0
       THEN /\ hrmsconnection' =
                 [hrmsconnection EXCEPT ![loc[w].existing] = SetFields(@, loc[w].conn)]
            /\ Return(w, "connect_hrms", loc[w].req, 200,
                      [status |-> "updated", connected |-> loc[w].conn.connected])
       ELSE /\ hrmsconnection' = create_document(hrmsconnection, loc[w].conn)
            /\ Return(w, "connect_hrms", loc[w].req, 200,
                      [status |-> "created", connected |-> loc[w].conn.connected])
    /\ UNCHANGED <<employee, attendance, payrollsettings, payroll, payslip, history>>

\* ---------------------------------------------------------------------------
\* POST /api/hrms/sync
\* ---------------------------------------------------------------------------
Sample ==
    <<EmployeeSchema([name |-> "Aarav Mehta", department |-> "Engineering",
                      email |-> "employee1@synczenith.com"]),
      EmployeeSchema([name |-> "Diya Kapoor", department |-> "HR",
                      email |-> "employee2@synczenith.com"]),
      EmployeeSchema([name |-> "Kabir Singh", department |-> "Finance",
                      email |-> "employee3@synczenith.com"])>>

\* find_one(filt) finds a document.
FindOne(collection, filt) == \E k \in 1..Len(collection) : Matches(collection[k], filt)

\* A seed loop without the look-up by email.
RECURSIVE SeedAlways(_, _)
SeedAlways(collection, i) ==
    IF i > Len(Sample) THEN collection
    ELSE SeedAlways(create_document(collection, [Sample[i] EXCEPT !.source = "HRMS"]), i + 1)

\* Lines 124-129: the employee collection after the loop over sample from i on.
RECURSIVE SeedFrom(_, _)
SeedFrom(collection, i) ==
    IF i > Len(Sample) THEN collection
    ELSE IF FindOne(collection, [email |-> Sample[i].email])
    THEN SeedFrom(collection, i + 1)
    ELSE SeedFrom(create_document(collection, [Sample[i] EXCEPT !.source = "HRMS"]), i + 1)

\* Lines 131-134: the attendance collection after the loop over the employees.
RECURSIVE AttendFrom(_, _, _)
AttendFrom(n, collection, i) ==
    IF i > n THEN collection
    ELSE IF FindOne(collection, [employeeId |-> ObjectIds[i]])
    THEN AttendFrom(n, collection, i + 1)
    ELSE AttendFrom(n, create_document(collection,
                          AttendanceSchema(ObjectIds[i], 20, 2, FloatOfInt(5))), i + 1)

sync_hrms ==
    /\ employee' = SeedFrom(employee, 1)
    /\ attendance' = AttendFrom(Len(employee'), attendance, 1)
    /\ hrmsconnection' =
         IF hrmsconnection = <<>>
         THEN <<[lastSync |-> utcnow, connected |-> TRUE]>>
         ELSE [hrmsconnection EXCEPT ![1] =
                 [k \in DOMAIN @ \cup {"lastSync", "connected"} |->
                    IF k = "lastSync" THEN utcnow
                    ELSE IF k = "connected" THEN TRUE ELSE @[k]]]
    /\ resp' = Response("sync_hrms", EmptyDict, 200,
                        [status |-> "ok", created |-> Len(employee') - Len(employee)])
    /\ UNCHANGED <<payrollsettings, payroll, payslip, threads, history>>

\* ---------------------------------------------------------------------------
\* GET and PUT /api/settings
\* ---------------------------------------------------------------------------
get_settings ==
    /\ IF payrollsettings = <<>>
       THEN /\ payrollsettings' = create_document(payrollsettings, PayrollSettings(EmptyDict))
            /\ resp' = Response("get_settings", EmptyDict, 200, PayrollSettings(EmptyDict))
       ELSE /\ resp' = Response("get_settings", EmptyDict, 200,
                             WithKey(payrollsettings[1], "_id", ObjectIds[1]))
            /\ UNCHANGED payrollsettings
    /\ UNCHANGED <<employee, attendance, hrmsconnection, payroll, payslip, threads, history>>

\* A PUT that inserts a document whatever the collection holds.
update_inserts(body) ==
    /\ payrollsettings' = create_document(payrollsettings, PayrollSettings(body))
    /\ resp' = Response("update_settings", body, 200, [status |-> "created"])
    /\ UNCHANGED <<employee, attendance, hrmsconnection, payroll, payslip, threads, history>>

update_settings(body) ==
    /\ IF payrollsettings # <<>>
       THEN /\ payrollsettings' = [payrollsettings EXCEPT ![1] = PayrollSettings(body)]
            /\ resp' = Response("update_settings", body, 200, [status |-> "updated"])
       ELSE /\ payrollsettings' = create_document(payrollsettings, PayrollSettings(body))
            /\ resp' = Response("update_settings", body, 200, [status |-> "created"])
    /\ UNCHANGED <<employee, attendance, hrmsconnection, payroll, payslip, threads, history>>

\* ---------------------------------------------------------------------------
\* GET /api/payroll. A query string is a sequence of characters; None and ""
\* are both the empty sequence, as the handler only tests them.
\* ---------------------------------------------------------------------------
Digits == <<"0", "1", "2", "3", "4", "5", "6", "7", "8", "9">>

IsDigit(c) == \E d \in 1..Len(Digits) : Digits[d] = c

DigitValue(c) == (CHOOSE d \in 1..Len(Digits) : Digits[d] = c) - 1

\* s.split(sep) from position i on, part being the piece collected so far
RECURSIVE SplitFrom(_, _, _, _)
SplitFrom(s, sep, i, part) ==
    IF i > Len(s) THEN <<part>>
    ELSE IF s[i] = sep THEN <<part>> \o SplitFrom(s, sep, i + 1, <<>>)
    ELSE SplitFrom(s, sep, i + 1, Append(part, s[i]))

Split(s, sep) == SplitFrom(s, sep, 1, <<>>)

\* int(s) raises ValueError unless s is a decimal numeral (of the numerals
\* int() takes, the query strings here hold only plain digits).
IsInt(s) == s # <<>> /\ \A i \in 1..Len(s) : IsDigit(s[i])

RECURSIVE IntFrom(_, _, _)
IntFrom(s, i, acc) ==
    IF i > Len(s) THEN acc ELSE IntFrom(s, i + 1, 10 * acc + DigitValue(s[i]))

int(s) == IntFrom(s, 1, 0)

\* datetime(y, m, 1) raises ValueError outside MINYEAR..MAXYEAR and 1..12.
MINYEAR == 1

MAXYEAR == 9999

IsDatetime(y, m) == MINYEAR <= y /\ y <= MAXYEAR /\ 1 <= m /\ m <= 12

\* Lines 196-197
EndMonth(m) == IF m < 12 THEN m + 1 ELSE 1

EndYear(y, m) == IF m < 12 THEN y ELSE y + 1

\* The month range of year y, month m whatever y and m are.
WithMonthUnchecked(filt, y, m) ==
    WithKey(filt, "month", [gte |-> Date(y, m, 1), lt |-> Date(EndYear(y, m), EndMonth(m), 1)])

\* Lines 194-198: filt with the month range of year y, month m, or filt as it
\* was when datetime() raises.
WithMonthRange(filt, y, m) ==
    IF IsDatetime(y, m) /\ IsDatetime(EndYear(y, m), EndMonth(m))
    THEN WithKey(filt, "month",
                 [gte |-> Date(y, m, 1), lt |-> Date(EndYear(y, m), EndMonth(m), 1)])
    ELSE filt

\* Lines 192-200: y, m = month.split("-") and what follows, any exception
\* leaving filt as it was.
WithMonthParts(filt, parts) ==
    IF Len(parts) = 2 /\ IsInt(parts[1]) /\ IsInt(parts[2])
    THEN WithMonthRange(filt, int(parts[1]), int(parts[2]))
    ELSE filt

\* Lines 187-200
WithStatus(filt, status) == IF Truthy(status) THEN WithKey(filt, "status", status) ELSE filt

WithMonth(filt, month) == IF month # <<>> THEN WithMonthParts(filt, Split(month, "-")) ELSE filt

ListFilter(status, month) == WithMonth(WithStatus(EmptyDict, status), month)

\* get_documents(collection, filt): the matching documents, in insertion order,
\* by number.
get_documents(collection, filt) == FindFrom(collection, filt, 1)

\* Lines 202-208: the documents with _id made a string.
Serialized(collection, found) ==
    [i \in 1..Len(found) |-> WithKey(collection[found[i]], "_id", ObjectIds[found[i]])]

list_payroll(status, month) ==
    /\ resp' = Response("list_payroll", [status |-> status, month |-> month], 200,
                        Serialized(payroll, get_documents(payroll, ListFilter(status, month))))
    /\ UNCHANGED <<store, threads, history>>

\* ---------------------------------------------------------------------------
\* GET /api/payroll/{payroll_id}
\* ---------------------------------------------------------------------------
get_payroll(payroll_id) ==
    /\ resp' = IF oid(payroll_id) = 0
               THEN Response("get_payroll", [payroll_id |-> payroll_id], 400,
                             [detail |-> "Invalid id"])
               ELSE IF ~Exists(payroll, oid(payroll_id))
               THEN Response("get_payroll", [payroll_id |-> payroll_id], 404,
                             [detail |-> "Payroll not found"])
               ELSE Response("get_payroll", [payroll_id |-> payroll_id], 200,
                             WithKey(payroll[oid(payroll_id)], "_id", payroll_id))
    /\ UNCHANGED <<store, threads, history>>

\* ---------------------------------------------------------------------------
\* GET /api/reports/summary
\* ---------------------------------------------------------------------------
\* count_documents(filt)
count_documents(collection, filt) == Len(FindFrom(collection, filt, 1))

\* Lines 299-301: total += float(it.get(key, 0)) over the items from i on.
RECURSIVE AddItems(_, _, _, _)
AddItems(items, i, key, total) ==
    IF i > Len(items) THEN total
    ELSE AddItems(items, i + 1, key, FAdd(total, items[i][key]))

\* Lines 298-301: the loop over the runs found, from the j-th on.
RECURSIVE AddRuns(_, _, _, _, _)
AddRuns(collection, found, j, key, total) ==
    IF j > Len(found) THEN total
    ELSE AddRuns(collection, found, j + 1, key,
                 AddItems(collection[found[j]].employees, 1, key, total))

\* Lines 292-305, filt being what lines 280-291 made of the month.
Summary(collection, filt) ==
    [counts |-> [total     |-> count_documents(collection, filt),
                 processed |-> count_documents(collection, WithKey(filt, "status", "Processed")),
                 sent      |-> count_documents(collection, WithKey(filt, "status", "Sent"))],
     totals |-> [gross |-> AddRuns(collection, FindFrom(collection, filt, 1), 1, "earnings", FZero),
                 net   |-> AddRuns(collection, FindFrom(collection, filt, 1), 1, "net", FZero)]]

payroll_summary(month) ==
    /\ resp' = Response("payroll_summary", [month |-> month], 200,
                        Summary(payroll, WithMonth(EmptyDict, month)))
    /\ UNCHANGED <<store, threads, history>>

\* ---------------------------------------------------------------------------
\* Initial states: no request in flight, nothing returned; the payroll, payslip,
\* attendance, connection and settings collections empty.
\* ---------------------------------------------------------------------------
InitWith(employees) ==
    /\ employee = employees
    /\ attendance = <<>>
    /\ hrmsconnection = <<>>
    /\ payrollsettings = <<>>
    /\ payroll = <<>>
    /\ payslip = <<>>
    /\ pc = [w \in Threads |-> "idle"]
    /\ loc = [w \in Threads |-> Idle]
    /\ resp = NoResponse
    /\ slipRun = <<>>
    /\ calls = <<>>

\* ---------------------------------------------------------------------------
\* Spec: the payroll run lifecycle with NumThreads requests in flight, on a
\* store that holds two employees created through POST /api/employees.
\* ---------------------------------------------------------------------------
F(n) == FloatOfInt(n)

Profile50 == PayrollProfile([basic |-> F(50000), hra |-> F(10000), totalCTC |-> F(60000)])

Profile40 == PayrollProfile([basic |-> F(40000), hra |-> FZero, totalCTC |-> F(40000)])

LifeEmployees ==
    <<EmployeeSchema([name |-> "A", email |-> "a@example.com", payrollProfile |-> Profile50]),
      EmployeeSchema([name |-> "B", email |-> "b@example.com", payrollProfile |-> Profile40])>>

LifeRuns ==
    {[month |-> Date(2024, 2, 1), type |-> "Monthly", employee_ids |-> <<"id1", "id2">>],
     [month |-> Date(2024, 3, 1), type |-> "Monthly", employee_ids |-> <<"id1">>]}

LifeRunIds == {ObjectIds[n] : n \in 1..(MaxRuns + 1)} \cup {"not-an-id"}

LifeSends == {[payroll_id |-> id, via |-> "portal"] : id \in LifeRunIds \cup {""}}

Init == InitWith(LifeEmployees)

Next ==
    \/ \E req \in LifeRuns : Len(payroll) < MaxRuns /\ create_payroll(req)
    \/ \E w \in Threads, id \in LifeRunIds : process_begin(w, id)
    \/ \E w \in Threads : process_generate(w)
    \/ \E w \in Threads : process_return(w)
    \/ \E w \in Threads, req \in LifeSends : send_begin(w, req)
    \/ \E w \in Threads : send_mark(w)
    \/ \E w \in Threads : send_return(w)

Spec == Init /\ [][Next]_vars

\* ---------------------------------------------------------------------------
\* Claims about the lifecycle, checked under Spec
\* ---------------------------------------------------------------------------
Range(seq) == {seq[i] : i \in 1..Len(seq)}

ProcessCalls == {w \in Threads : pc[w] = "process_generate"}

\* Thread w takes the step that starts a process call on an existing run.
BeginsProcess(w) == pc[w] = "idle" /\ pc'[w] = "process_generate"

\* Thread w takes one turn of the payslip loop.
GeneratesPayslip(w) ==
    pc[w] = "process_generate" /\ pc'[w] = "process_generate" /\ loc'[w] # loc[w]

\* Thread w returns from a process call on an existing run.
ReturnsProcess(w) == pc[w] = "process_generate" /\ pc'[w] = "idle"

\* Payslip ps carries line item i of the run and is not sent.
IsPayslipOf(ps, run, i) ==
    /\ ps.employeeId = run.employees[i].employee_id
    /\ ps.grossSalary = run.employees[i].earnings
    /\ ps.deductions = run.employees[i].deductions
    /\ ps.netSalary = run.employees[i].net
    /\ ps.payrollMonth = run.month
    /\ ps.sent = FALSE

C1_Step(w) ==
    /\ BeginsProcess(w) =>
         /\ payroll[loc'[w].p._id].status = "Draft"
              => payroll'[loc'[w].p._id].status = "Processed"
         /\ loc'[w].generated = 0
         /\ payslip' = payslip
    /\ GeneratesPayslip(w) =>
         /\ loc[w].generated < Len(payroll[loc[w].p._id].employees)
         /\ Len(payslip') = Len(payslip) + 1
         /\ SubSeq(payslip', 1, Len(payslip)) = payslip
         /\ IsPayslipOf(payslip'[Len(payslip')], payroll[loc[w].p._id], loc[w].generated + 1)
         /\ loc'[w].generated = loc[w].generated + 1
    /\ ReturnsProcess(w) =>
         /\ loc[w].generated = Len(payroll[loc[w].p._id].employees)
         /\ resp'.op = "process_payroll" /\ resp'.code = 200
         /\ resp'.body.payslips = Len(payroll[loc[w].p._id].employees)
         /\ payslip' = payslip

\* C1: a process call on an existing run with N line items (a Draft run's status
\* becomes Processed when it starts) appends one payslip per turn of its loop,
\* the k-th carrying the run's k-th line item (employeeId, grossSalary,
\* deductions, netSalary), the run's month and sent = FALSE, and returns after
\* exactly N of them with the count N.
C1_ProcessCreatesPayslips == [][\A w \in Threads : C1_Step(w)]_vars

C1_Witness ==
    /\ resp.op = "process_payroll" /\ resp.code = 200 /\ resp.body.payslips = 2
    /\ Len(payslip) = 2
    /\ payroll[oid(resp.req.payroll_id)].status = "Processed"
    /\ Len(payroll[oid(resp.req.payroll_id)].employees) = 2
    /\ \A k \in 1..2 : IsPayslipOf(payslip[k], payroll[oid(resp.req.payroll_id)], k)

\* Payslips generated from run n.
SlipsFrom(n) == Cardinality({k \in 1..Len(slipRun) : slipRun[k] = n})

\* Payslips that the process calls still in flight on run n have created.
RECURSIVE GeneratedBy(_, _)
GeneratedBy(ws, n) ==
    IF ws = {} THEN 0
    ELSE LET w == CHOOSE x \in ws : TRUE
         IN  (IF loc[w].p._id = n THEN loc[w].generated ELSE 0) + GeneratedBy(ws \ {w}, n)

\* C2: process has no idempotency guard. For every run with N line items, the
\* payslips generated from it number k * N for the k process calls on it that
\* have returned, plus what the calls still in flight have generated so far,
\* whatever the interleaving of the calls.
C2_EveryCallAddsN ==
    \A n \in 1..Len(payroll) :
        SlipsFrom(n) = calls[n] * Len(payroll[n].employees) + GeneratedBy(ProcessCalls, n)

C2_Witness ==
    \E n \in 1..Len(payroll) :
        /\ calls[n] = 2
        /\ Len(payroll[n].employees) >= 1
        /\ SlipsFrom(n) = 2 * Len(payroll[n].employees)

\* Thread w takes the step that starts a send; its request is loc'[w].req.
BeginsSend(w) == pc[w] = "idle" /\ pc'[w] = "send_mark"

\* Thread w takes one turn of the send loop.
MarksPayslip(w) == pc[w] = "send_mark" /\ pc'[w] = "send_mark" /\ loc'[w] # loc[w]

\* Thread w returns from a send that selected payslips.
ReturnsSend(w) == pc[w] = "send_mark" /\ pc'[w] = "idle"

OfMonth(month) == {k \in 1..Len(payslip) : payslip[k].payrollMonth = month}

C3_Step(w) ==
    /\ (BeginsSend(w) /\ loc'[w].req.payroll_id # "") =>
         /\ Range(loc'[w].cursor) = OfMonth(payroll[oid(loc'[w].req.payroll_id)].month)
         /\ Len(loc'[w].cursor) = Cardinality(Range(loc'[w].cursor))
         /\ payslip' = payslip
         /\ payroll' = payroll
    /\ (MarksPayslip(w) /\ loc[w].req.payroll_id # "") =>
         /\ \E k \in Range(loc[w].cursor) : payslip' = [payslip EXCEPT ![k].sent = TRUE]
         /\ payroll' = payroll
    /\ (ReturnsSend(w) /\ loc[w].req.payroll_id # "") =>
         /\ \A k \in Range(loc[w].cursor) : payslip[k].sent
         /\ payslip' = payslip
         /\ resp'.op = "send_payslips" /\ resp'.code = 200
         /\ resp'.body.count = Len(loc[w].cursor)
         /\ Len(payroll') = Len(payroll)
         /\ \A n \in 1..Len(payroll) :
              payroll'[n] = IF n = oid(loc[w].req.payroll_id)
                            THEN [payroll[n] EXCEPT !.status = "Sent"]
                            ELSE payroll[n]

\* C3: a send with the id of an existing run selects exactly the payslips whose
\* payrollMonth is that run's month, each of its steps changes nothing but the
\* sent flag of one selected payslip (to TRUE), and when it returns every
\* selected payslip is sent, the count is the number selected, that run's
\* status is Sent and every other run is as it was.
C3_SendOfRun == [][\A w \in Threads : C3_Step(w)]_vars

C3_Witness ==
    /\ resp.op = "send_payslips" /\ resp.code = 200 /\ resp.req.payroll_id # ""
    /\ resp.body.count >= 1
    /\ payroll[oid(resp.req.payroll_id)].status = "Sent"
    /\ \A k \in OfMonth(payroll[oid(resp.req.payroll_id)].month) : payslip[k].sent
    /\ \E k \in 1..Len(payslip) :
         /\ payslip[k].payrollMonth # payroll[oid(resp.req.payroll_id)].month
         /\ ~payslip[k].sent
    /\ \E n \in 1..Len(payroll) : payroll[n].status = "Processed"

C4_Step(w) ==
    /\ (BeginsSend(w) /\ loc'[w].req.payroll_id = "") =>
         /\ loc'[w].cursor = [k \in 1..Len(payslip) |-> k]
         /\ payslip' = payslip
         /\ payroll' = payroll
    /\ (MarksPayslip(w) /\ loc[w].req.payroll_id = "") =>
         /\ \E k \in 1..Len(payslip) : payslip' = [payslip EXCEPT ![k].sent = TRUE]
         /\ payroll' = payroll
    /\ (ReturnsSend(w) /\ loc[w].req.payroll_id = "") =>
         /\ \A k \in Range(loc[w].cursor) : payslip[k].sent
         /\ payslip' = payslip
         /\ resp'.op = "send_payslips" /\ resp'.code = 200
         /\ resp'.body.count = Len(loc[w].cursor)
         /\ payroll' = payroll

\* C4: a send without a run id selects every payslip of the store, whatever its
\* month; when it returns each of them is sent and the count is their number;
\* none of its steps changes a run.
C4_SendOfAll == [][\A w \in Threads : C4_Step(w)]_vars

C4_Witness ==
    /\ resp.op = "send_payslips" /\ resp.code = 200 /\ resp.req.payroll_id = ""
    /\ resp.body.count = Len(payslip)
    /\ \E j, k \in 1..Len(payslip) : payslip[j].payrollMonth # payslip[k].payrollMonth
    /\ \A k \in 1..Len(payslip) : payslip[k].sent
    /\ \A n \in 1..Len(payroll) : payroll[n].status = "Processed"

\* C5: the only status changes of a run are Draft to Processed and Processed to
\* Sent.
C5_OnlyForwardTransitions ==
    [][\A n \in 1..Len(payroll) :
         payroll'[n].status # payroll[n].status =>
           <<payroll[n].status, payroll'[n].status>>
             \in {<<"Draft", "Processed">>, <<"Processed", "Sent">>}]_vars

\* C6: every run is created with status Draft, and no step takes a run that is
\* Processed or Sent back to Draft.
C6_NeverBackToDraft ==
    [][/\ \A n \in 1..Len(payroll) :
            payroll[n].status # "Draft" => payroll'[n].status # "Draft"
       /\ \A n \in (Len(payroll) + 1)..Len(payroll') : payroll'[n].status = "Draft"]_vars

C6_Witness ==
    /\ \E n \in 1..Len(payroll) : payroll[n].status = "Sent" /\ calls[n] = 2
    /\ \E n \in 1..Len(payroll) : payroll[n].status = "Draft"

\* ---------------------------------------------------------------------------
\* SpecCalc: employees, HRMS sync, settings and the creation of runs, one
\* request at a time, from an empty store.
\* ---------------------------------------------------------------------------
\* 15.4
Fraction == [m |-> <<3277, 13107, 3276, 1971>>, e |-> -49]

Profile50Extras ==
    PayrollProfile([basic |-> F(50000), hra |-> F(10000), ta |-> F(1600),
                    bonus |-> F(5000), epf |-> F(12), esi |-> DefaultEsiPercent,
                    totalCTC |-> F(80000)])

ProfileFraction == PayrollProfile([basic |-> Fraction, hra |-> FZero, totalCTC |-> Fraction])

CalcEmployees ==
    {[name |-> "N", email |-> "n@example.com"],
     [name |-> "A", email |-> "a@example.com", payrollProfile |-> Profile50],
     [name |-> "X", email |-> "x@example.com", payrollProfile |-> Profile50Extras],
     [name |-> "F", email |-> "f@example.com", payrollProfile |-> ProfileFraction]}

CalcSettings == {EmptyDict, [epf_percent |-> F(20)]}

CalcIds == {<<"id1", "id8", "id2">>, <<"id2", "id2">>, <<"id1", "not-an-id">>}

CalcRuns ==
    {[month |-> Date(2024, 2, 1), type |-> "Monthly", employee_ids |-> ids] : ids \in CalcIds}

InitCalc == InitWith(<<>>)

NextCalc ==
    \/ \E body \in CalcEmployees : Len(employee) < MaxEmployees /\ create_employee(body)
    \/ sync_hrms
    \/ get_settings
    \/ \E body \in CalcSettings : update_settings(body)
    \/ \E req \in CalcRuns : Len(payroll) < MaxRuns /\ create_payroll(req)

SpecCalc == InitCalc /\ [][NextCalc]_vars

\* Every id of the list is an ObjectId.
WellFormedIds(ids) == \A i \in 1..Len(ids) : oid(ids[i]) # 0

\* The ids of the list that resolve to an employee of the store, from i on.
RECURSIVE ResolvingFrom(_, _)
ResolvingFrom(ids, i) ==
    IF i > Len(ids) THEN <<>>
    ELSE (IF Exists(employee, oid(ids[i])) THEN <<ids[i]>> ELSE <<>>)
           \o ResolvingFrom(ids, i + 1)

EmployeeIdsOf(items) == [i \in 1..Len(items) |-> items[i].employee_id]

\* C7: a create payroll with well-formed ids succeeds and appends one Draft run
\* whose line items are, in request order and one per occurrence, the ids that
\* resolve to an employee of the store.
C7_CreateSkipsUnresolved ==
    [][(resp'.op = "create_payroll" /\ WellFormedIds(resp'.req.employee_ids)) =>
         /\ resp'.code = 200
         /\ Len(payroll') = Len(payroll) + 1
         /\ SubSeq(payroll', 1, Len(payroll)) = payroll
         /\ payroll'[Len(payroll')].status = "Draft"
         /\ EmployeeIdsOf(payroll'[Len(payroll')].employees)
              = ResolvingFrom(resp'.req.employee_ids, 1)]_vars

\* The id resolves to an employee stored without a payroll profile.
NoProfile(eid) == Exists(employee, oid(eid)) /\ employee[oid(eid)].payrollProfile = None

\* C8: a create payroll with well-formed ids, one of them of an employee stored
\* without a payroll profile, succeeds, and the line item of every such
\* employee has earnings 42000, deductions 5040 and net 36960.
C8_NoProfileDefaults ==
    [][(/\ resp'.op = "create_payroll"
        /\ WellFormedIds(resp'.req.employee_ids)
        /\ \E i \in 1..Len(resp'.req.employee_ids) : NoProfile(resp'.req.employee_ids[i])) =>
         /\ resp'.code = 200
         /\ Len(payroll') = Len(payroll) + 1
         /\ \A i \in 1..Len(payroll'[Len(payroll')].employees) :
              NoProfile(payroll'[Len(payroll')].employees[i].employee_id) =>
                /\ payroll'[Len(payroll')].employees[i].earnings = F(42000)
                /\ payroll'[Len(payroll')].employees[i].deductions = F(5040)
                /\ payroll'[Len(payroll')].employees[i].net = F(36960)]_vars

\* The line items of the stored runs: item i of run n.
LineItems ==
    UNION {{<<n, i>> : i \in 1..Len(payroll[n].employees)} : n \in 1..Len(payroll)}

ItemAt(ni) == payroll[ni[1]].employees[ni[2]]

\* The payroll profile of the employee of a line item (no handler changes or
\* removes an employee).
ProfileAt(ni) == employee[oid(ItemAt(ni).employee_id)].payrollProfile

\* The line item is what binary64 arithmetic makes of its employee's profile.
FollowsProfile(ni) ==
    /\ ProfileAt(ni) # None =>
         /\ ItemAt(ni).earnings = FAdd(ProfileAt(ni).basic, ProfileAt(ni).hra)
         /\ ItemAt(ni).deductions = FMul(ItemAt(ni).earnings, DeductionRate)
         /\ (ProfileAt(ni).basic = F(50000) /\ ProfileAt(ni).hra = F(10000)) =>
              /\ ItemAt(ni).earnings = F(60000)
              /\ ItemAt(ni).deductions = F(7200)
              /\ ItemAt(ni).net = F(52800)
    /\ ItemAt(ni).net = FSub(ItemAt(ni).earnings, ItemAt(ni).deductions)

\* C9 (amended): for an employee with a payroll profile the line item has
\* earnings = basic + hra, deductions = earnings * 0.12 and, as every line item
\* of every stored run, net = earnings - deductions, each the binary64 result
\* of that one operation, whatever the profile's ta, bonus, epf, esi and
\* totalCTC and whatever the stored settings (basic 50000 and hra 10000 give
\* 60000, 7200 and 52800).
C9_LineItemFollowsProfile == \A ni \in LineItems : FollowsProfile(ni)

C9_Witness ==
    /\ payrollsettings # <<>> /\ payrollsettings[1].epf_percent = F(20)
    /\ \E ni \in LineItems :
         /\ ProfileAt(ni) = Profile50Extras
         /\ ItemAt(ni).earnings = F(60000)
         /\ ItemAt(ni).deductions = F(7200)
         /\ ItemAt(ni).net = F(52800)
    /\ \E ni \in LineItems :
         /\ ProfileAt(ni) = ProfileFraction
         /\ FAdd(ItemAt(ni).deductions, ItemAt(ni).net) # ItemAt(ni).earnings

\* C9 as stated: the above, and hence deductions + net = earnings for every
\* line item of every stored run.
C9_SumIsEarnings ==
    \A ni \in LineItems :
        /\ FollowsProfile(ni)
        /\ FAdd(ItemAt(ni).deductions, ItemAt(ni).net) = ItemAt(ni).earnings

\* ---------------------------------------------------------------------------
\* SpecList: runs of several months and the listing of runs, one request at a
\* time, on the store of Spec.
\* ---------------------------------------------------------------------------
ListRuns ==
    {[month |-> d, type |-> "Monthly", employee_ids |-> <<"id1">>] :
       d \in {Date(2024, 2, 1), Date(2024, 11, 30), Date(2024, 12, 31),
              Date(2025, 1, 1), Date(9999, 12, 15)}}

ListMonths ==
    {<<>>,
     <<"2", "0", "2", "4", "-", "0", "2">>,
     <<"2", "0", "2", "4", "-", "1", "2">>,
     <<"9", "9", "9", "9", "-", "1", "2">>,
     <<"2", "0", "2", "4", "-", "1", "3">>,
     <<"2", "0", "2", "4">>,
     <<"2", "0", "2", "4", "-", "x">>}

ListStatuses == {"", "Draft", "Sent"}

InitList == InitWith(LifeEmployees)

NextList ==
    \/ \E req \in ListRuns : Len(payroll) < MaxRuns /\ create_payroll(req)
    \/ \E status \in ListStatuses, month \in ListMonths : list_payroll(status, month)

SpecList == InitList /\ [][NextList]_vars

\* The string is YYYY-MM with MM from 01 to 12.
IsYearMonth(s) ==
    /\ Len(s) = 7
    /\ s[5] = "-"
    /\ \A i \in {1, 2, 3, 4, 6, 7} : IsDigit(s[i])
    /\ 10 * DigitValue(s[6]) + DigitValue(s[7]) \in 1..12

YearOf(s) ==
    1000 * DigitValue(s[1]) + 100 * DigitValue(s[2]) + 10 * DigitValue(s[3]) + DigitValue(s[4])

MonthOf(s) == 10 * DigitValue(s[6]) + DigitValue(s[7])

FirstOfFollowing(y, m) == IF m = 12 THEN Date(y + 1, 1, 1) ELSE Date(y, m + 1, 1)

\* first-of-that-month <= d < first-of-the-following-month
InMonth(d, y, m) == ~DateLess(d, Date(y, m, 1)) /\ DateLess(d, FirstOfFollowing(y, m))

\* C10: a listing with a month filter YYYY-MM and no status filter returns
\* exactly the runs whose month d has first-of-that-month <= d <
\* first-of-the-following-month, the following month of December of year Y
\* being January of Y + 1.
C10_MonthFilterBuckets ==
    (resp.op = "list_payroll" /\ resp.req.status = "" /\ IsYearMonth(resp.req.month)) =>
        /\ {resp.body[i]._id : i \in 1..Len(resp.body)}
             = {ObjectIds[n] : n \in {k \in 1..Len(payroll) :
                    InMonth(payroll[k].month, YearOf(resp.req.month), MonthOf(resp.req.month))}}
        /\ \A i, j \in 1..Len(resp.body) : resp.body[i]._id = resp.body[j]._id => i = j

\* ---------------------------------------------------------------------------
\* SpecReport: runs of several months, processed and sent by one request at a
\* time, with the listing and the summary of the runs, on the store of Spec.
\* ---------------------------------------------------------------------------
ReportRuns ==
    {[month |-> Date(2024, 2, 1), type |-> "Monthly", employee_ids |-> <<"id1">>],
     [month |-> Date(9999, 12, 15), type |-> "Monthly", employee_ids |-> <<"id2">>]}

ReportMonths ==
    {<<>>,
     <<"2", "0", "2", "4", "-", "0", "2">>,
     <<"9", "9", "9", "9", "-", "1", "2">>,
     <<"2", "0", "2", "4", "-", "1", "3">>,
     <<"2", "0", "2", "4">>,
     <<"2", "0", "2", "4", "-", "x">>,
     <<"2", "0", "2", "4", "-", "0", "2", "-", "0", "1">>}

ReportRunIds == {ObjectIds[n] : n \in 1..MaxRuns}

ReportSends == {[payroll_id |-> id, via |-> "email"] : id \in ReportRunIds \cup {""}}

ReportStatuses == {"", "Processed"}

InitReport == InitWith(LifeEmployees)

\* No request is in flight: in the specifications of one request at a time, a
\* request starts only then.
Quiet == \A w \in Threads : pc[w] = "idle"

NextReport ==
    \/ \E req \in ReportRuns : Quiet /\ Len(payroll) < MaxRuns /\ create_payroll(req)
    \/ \E id \in ReportRunIds : process_begin(1, id)
    \/ process_generate(1)
    \/ process_return(1)
    \/ \E req \in ReportSends : send_begin(1, req)
    \/ send_mark(1)
    \/ send_return(1)
    \/ \E status \in ReportStatuses, month \in ReportMonths :
         Quiet /\ list_payroll(status, month)
    \/ \E month \in ReportMonths : Quiet /\ payroll_summary(month)

SpecReport == InitReport /\ [][NextReport]_vars

\* The runs a month filter is meant to select: those of that month for YYYY-MM,
\* every run without a filter.
RunsOfFilter(month) ==
    {n \in 1..Len(payroll) :
        IsYearMonth(month) => InMonth(payroll[n].month, YearOf(month), MonthOf(month))}

WithStatusIn(runs, status) == {n \in runs : payroll[n].status = status}

\* The sum of a field over the line items of a set of runs.
RECURSIVE SumOfItems(_, _, _)
SumOfItems(items, i, key) ==
    IF i = 0 THEN FZero ELSE FAdd(items[i][key], SumOfItems(items, i - 1, key))

RECURSIVE SumOfRuns(_, _)
SumOfRuns(runs, key) ==
    IF runs = {} THEN FZero
    ELSE FAdd(SumOfItems(payroll[CHOOSE n \in runs : TRUE].employees,
                         Len(payroll[CHOOSE n \in runs : TRUE].employees), key),
              SumOfRuns(runs \ {CHOOSE n \in runs : TRUE}, key))

\* C11: the summary for a month filter (none, or YYYY-MM) has total = processed
\* + sent + the matching runs in Draft, processed and sent being the numbers of
\* matching runs in those two statuses, and its gross and net totals are the
\* sums of earnings and net over the line items of the matching runs (zero when
\* none matches).
C11_SummaryPartitions ==
    (resp.op = "payroll_summary" /\ (resp.req.month = <<>> \/ IsYearMonth(resp.req.month))) =>
        /\ resp.body.counts.total = Cardinality(RunsOfFilter(resp.req.month))
        /\ resp.body.counts.processed
             = Cardinality(WithStatusIn(RunsOfFilter(resp.req.month), "Processed"))
        /\ resp.body.counts.sent
             = Cardinality(WithStatusIn(RunsOfFilter(resp.req.month), "Sent"))
        /\ resp.body.counts.total
             = resp.body.counts.processed + resp.body.counts.sent
                 + Cardinality(WithStatusIn(RunsOfFilter(resp.req.month), "Draft"))
        /\ resp.body.totals.gross = SumOfRuns(RunsOfFilter(resp.req.month), "earnings")
        /\ resp.body.totals.net = SumOfRuns(RunsOfFilter(resp.req.month), "net")

\* ---------------------------------------------------------------------------
\* SpecOps: every operation on employees, runs and payslips, one request at a
\* time, from an empty store.
\* ---------------------------------------------------------------------------
OpsEmployees ==
    {[name |-> "N", email |-> "n@example.com"],
     [name |-> "A", email |-> "a@example.com", payrollProfile |-> Profile50]}

OpsRuns ==
    {[month |-> Date(2024, 2, 1), type |-> "Monthly", employee_ids |-> ids] :
       ids \in {<<"id1", "id2">>, <<"id1", "not-an-id">>, <<"not-an-id">>}}

OpsRunIds == {ObjectIds[n] : n \in 1..(MaxRuns + 1)} \cup {"not-an-id"}

OpsSends == {[payroll_id |-> id, via |-> "email"] : id \in OpsRunIds \cup {""}}

InitOps == InitWith(<<>>)

NextOps ==
    \/ \E body \in OpsEmployees :
         Quiet /\ Len(employee) < MaxEmployees /\ create_employee(body)
    \/ Quiet /\ sync_hrms
    \/ \E req \in OpsRuns : Quiet /\ Len(payroll) < MaxRuns /\ create_payroll(req)
    \/ \E id \in OpsRunIds : Quiet /\ get_payroll(id)
    \/ \E id \in OpsRunIds : process_begin(1, id)
    \/ process_generate(1)
    \/ process_return(1)
    \/ \E req \in OpsSends : send_begin(1, req)
    \/ send_mark(1)
    \/ send_return(1)

SpecOps == InitOps /\ [][NextOps]_vars

\* C12: no step removes a run or changes the month, the type or the line items
\* of an existing run, whatever it does to employees; a step changes of a run
\* its status only.
C12_RunsKeepTheirItems ==
    [][/\ Len(payroll') >= Len(payroll)
       /\ \A n \in 1..Len(payroll) :
            /\ payroll'[n].month = payroll[n].month
            /\ payroll'[n].type = payroll[n].type
            /\ payroll'[n].employees = payroll[n].employees
            /\ payroll'[n] = [payroll[n] EXCEPT !.status = payroll'[n].status]]_vars

C12_Witness ==
    /\ resp.op = "sync_hrms" /\ resp.body.created = 3
    /\ \E n \in 1..Len(payroll) :
         /\ payroll[n].status = "Sent"
         /\ calls[n] = 1
         /\ Len(payroll[n].employees) = 2

\* Some id of the list is not an ObjectId.
HasMalformedId(ids) == \E i \in 1..Len(ids) : oid(ids[i]) = 0

\* The response is the 400 of oid(), and the step left the store as it was.
InvalidIdAndUnchanged ==
    resp'.code = 400 /\ resp'.body = [detail |-> "Invalid id"] /\ store' = store

NotFoundAndUnchanged == resp'.code = 404 /\ store' = store

\* C13: process and send with the well-formed id of no run answer 404; process,
\* send and get-run with a malformed id, and create payroll with a malformed id
\* in its list, answer 400 "Invalid id"; each leaves the store as it was.
C13_ErrorsLeaveStore ==
    [][/\ (resp'.op \in {"process_payroll", "get_payroll"} /\ oid(resp'.req.payroll_id) = 0)
            => InvalidIdAndUnchanged
       /\ (/\ resp'.op = "send_payslips"
           /\ resp'.req.payroll_id # ""
           /\ oid(resp'.req.payroll_id) = 0) => InvalidIdAndUnchanged
       /\ (resp'.op = "create_payroll" /\ HasMalformedId(resp'.req.employee_ids))
            => InvalidIdAndUnchanged
       /\ (/\ resp'.op = "process_payroll"
           /\ oid(resp'.req.payroll_id) # 0
           /\ ~Exists(payroll, oid(resp'.req.payroll_id))) => NotFoundAndUnchanged
       /\ (/\ resp'.op = "send_payslips"
           /\ resp'.req.payroll_id # ""
           /\ oid(resp'.req.payroll_id) # 0
           /\ ~Exists(payroll, oid(resp'.req.payroll_id))) => NotFoundAndUnchanged]_vars

\* ---------------------------------------------------------------------------
\* SpecHrms: employees, HRMS sync and HRMS connect, the connect requests of
\* NumThreads callers interleaving, from an empty store.
\* ---------------------------------------------------------------------------
HrmsEmployees ==
    {[name |-> "M", email |-> "employee1@synczenith.com"],
     [name |-> "B", email |-> "b@example.com"]}

HrmsConnections == {[connected |-> TRUE, apiKey |-> "key"], [connected |-> FALSE]}

\* Employees created through POST /api/employees.
Manual == {n \in 1..Len(employee) : employee[n].source = "Manual"}

InitHrms == InitWith(<<>>)

NextHrms ==
    \/ \E body \in HrmsEmployees :
         Cardinality(Manual) < MaxEmployees /\ create_employee(body)
    \/ sync_hrms
    \/ \E w \in Threads, body \in HrmsConnections : connect_find(w, body)
    \/ \E w \in Threads : connect_write(w)

SpecHrms == InitHrms /\ [][NextHrms]_vars

\* Employees of the collection with the email.
WithEmail(collection, email) == {n \in 1..Len(collection) : collection[n].email = email}

\* Attendance records of the collection for employee number n.
AttendanceOf(collection, n) ==
    {a \in 1..Len(collection) : collection[a].employeeId = ObjectIds[n]}

SeedEmails == {"employee1@synczenith.com", "employee2@synczenith.com",
               "employee3@synczenith.com"}

\* C14: a sync leaves the employees and the attendance records there are as
\* they were; each seed email is afterwards on as many employees as before, or
\* on one if it was on none, and created counts the latter; every employee then
\* has exactly one attendance record; a sync right after a sync creates no
\* employee and no attendance record.
C14_SyncIsIdempotent ==
    [][resp'.op = "sync_hrms" =>
         /\ SubSeq(employee', 1, Len(employee)) = employee
         /\ SubSeq(attendance', 1, Len(attendance)) = attendance
         /\ \A email \in SeedEmails :
              Cardinality(WithEmail(employee', email))
                = IF WithEmail(employee, email) = {} THEN 1
                  ELSE Cardinality(WithEmail(employee, email))
         /\ Len(employee') - Len(employee)
              = Cardinality({email \in SeedEmails : WithEmail(employee, email) = {}})
         /\ resp'.body.created = Len(employee') - Len(employee)
         /\ \A n \in 1..Len(employee') : Cardinality(AttendanceOf(attendance', n)) = 1
         /\ Len(attendance') = Len(employee')
         /\ resp.op = "sync_hrms" =>
              /\ employee' = employee
              /\ attendance' = attendance
              /\ resp'.body.created = 0]_vars

C14_Witness ==
    /\ resp.op = "sync_hrms" /\ resp.body.created = 0
    /\ Len(employee) = 4
    /\ \E n \in Manual : employee[n].email = "employee1@synczenith.com"
    /\ Cardinality(WithEmail(employee, "employee1@synczenith.com")) = 1
    /\ \A n \in 1..Len(employee) : Cardinality(AttendanceOf(attendance, n)) = 1

\* C15: the connection collection never holds more than one document, and
\* connect answers "created" exactly when the collection was empty.
C15_OneConnection ==
    [][/\ Len(hrmsconnection') <= 1
       /\ resp'.op = "connect_hrms" =>
            (resp'.body.status = "created" <=> hrmsconnection = <<>>)]_vars

\* The fields of a settings model.
SettingsFields == {"epf_percent", "esi_percent", "tax_rules", "payslip_logo_url",
                   "payslip_header"}

\* The body of a settings response holds, field by field, the model of the PUT body.
ReturnsValuesOf(body, put) ==
    /\ SettingsFields \subseteq DOMAIN body
    /\ body.epf_percent = DictGet(put, "epf_percent", F(12))
    /\ FMul(F(4), body.esi_percent) = F(3)
    /\ body.tax_rules = EmptyDict
    /\ body.payslip_logo_url = None
    /\ body.payslip_header = "SyncZenith Payslip"

\* C16 (under SpecCalc): a GET on an empty settings collection creates one
\* document of defaults (12.0 and 0.75) and returns them; the collection never
\* holds more than one document; a PUT leaves one document of its values, a GET
\* returns the document unchanged, and a GET right after a PUT returns the
\* values of that PUT; no other operation writes the collection.
C16_OneSettingsDocument ==
    [][/\ Len(payrollsettings') <= 1
       /\ (resp'.op = "get_settings" /\ payrollsettings = <<>>) =>
            /\ Len(payrollsettings') = 1
            /\ ReturnsValuesOf(payrollsettings'[1], EmptyDict)
            /\ ReturnsValuesOf(resp'.body, EmptyDict)
       /\ (resp'.op = "get_settings" /\ payrollsettings # <<>>) =>
            /\ payrollsettings' = payrollsettings
            /\ \A k \in SettingsFields : resp'.body[k] = payrollsettings[1][k]
       /\ (resp'.op = "get_settings" /\ resp.op = "update_settings") =>
            ReturnsValuesOf(resp'.body, resp.req)
       /\ resp'.op = "update_settings" =>
            /\ Len(payrollsettings') = 1
            /\ ReturnsValuesOf(payrollsettings'[1], resp'.req)
       /\ resp'.op \notin {"get_settings", "update_settings"} =>
            payrollsettings' = payrollsettings]_vars

C16_Witness ==
    /\ resp.op = "get_settings"
    /\ Len(payrollsettings) = 1
    /\ resp.body.epf_percent = F(20)
    /\ "_id" \in DOMAIN resp.body

\* The places of the string where c stands.
PlacesOf(s, c) == {i \in 1..Len(s) : s[i] = c}

\* The number the digits s[from..to] write.
RECURSIVE NumberAt(_, _, _)
NumberAt(s, from, to) ==
    IF to < from THEN 0 ELSE 10 * NumberAt(s, from, to - 1) + DigitValue(s[to])

\* Two integer parts separated by one '-', the second a month number.
TwoIntegerParts(s) ==
    /\ Cardinality(PlacesOf(s, "-")) = 1
    /\ \A d \in PlacesOf(s, "-") :
         /\ 1 < d /\ d < Len(s)
         /\ \A i \in (1..Len(s)) \ {d} : IsDigit(s[i])
         /\ NumberAt(s, d + 1, Len(s)) \in 1..12

Malformed(s) == s # <<>> /\ ~TwoIntegerParts(s)

\* C17 (under SpecReport): with a malformed month filter the listing and the
\* summary answer 200 with what they answer without a month filter: the listing
\* the runs of the status asked for (every run when none is asked for), the
\* summary the counts and totals of every run.
C17_MalformedMonthIgnored ==
    /\ (resp.op = "list_payroll" /\ Malformed(resp.req.month)) =>
         /\ resp.code = 200
         /\ resp.body = Serialized(payroll, get_documents(payroll,
                                       ListFilter(resp.req.status, <<>>)))
         /\ {resp.body[i]._id : i \in 1..Len(resp.body)}
              = {ObjectIds[n] : n \in {k \in 1..Len(payroll) :
                     resp.req.status = "" \/ payroll[k].status = resp.req.status}}
         /\ \A i, j \in 1..Len(resp.body) : resp.body[i]._id = resp.body[j]._id => i = j
    /\ (resp.op = "payroll_summary" /\ Malformed(resp.req.month)) =>
         /\ resp.code = 200
         /\ resp.body = Summary(payroll, EmptyDict)
         /\ resp.body.counts.total = Len(payroll)
         /\ resp.body.totals.gross = SumOfRuns(1..Len(payroll), "earnings")

C17_Witness ==
    /\ resp.op = "list_payroll"
    /\ Malformed(resp.req.month)
    /\ resp.req.status = "Processed"
    /\ Len(payroll) = 2
    /\ Len(resp.body) = 1

\* C18 (under Spec): a run whose status is Sent has no payslip generated from
\* it that is not sent.
C18_SentRunHasSentPayslips ==
    \A n \in 1..Len(payroll) :
        payroll[n].status = "Sent" =>
            \A k \in 1..Len(payslip) : slipRun[k] = n => payslip[k].sent

\* C19 (under Spec): no step removes a payslip, changes a field of a payslip
\* other than sent, or sets sent back to false; a step that changes a payslip
\* there is is a turn of the loop of a send.
C19_PayslipsOnlyGrow ==
    [][/\ Len(payslip') >= Len(payslip)
       /\ \A k \in 1..Len(payslip) :
            /\ [payslip'[k] EXCEPT !.sent = payslip[k].sent] = payslip[k]
            /\ payslip[k].sent => payslip'[k].sent
            /\ payslip'[k] # payslip[k] => \E w \in Threads : MarksPayslip(w)]_vars

C19_Witness ==
    /\ Len(payslip) = MaxPayslips
    /\ \E w \in Threads :
         /\ pc[w] = "send_mark"
         /\ loc[w].count >= 1
         /\ payslip[loc[w].cursor[1]].sent
    /\ \E w \in Threads : pc[w] = "process_generate" /\ loc[w].generated >= 1
    /\ \E k \in 1..Len(payslip) : ~payslip[k].sent

\* The send thread w has in hand changes nothing: each payslip it selected is
\* sent and the run it names, if any, is Sent.
SendsNothingNew(w) ==
    /\ pc[w] = "send_mark"
    /\ \A k \in Range(loc[w].cursor) : payslip[k].sent
    /\ loc[w].req.payroll_id # "" => payroll[oid(loc[w].req.payroll_id)].status = "Sent"

\* C20 (under SpecOps, one request at a time): a send that starts right after a
\* successful send with the same arguments selects as many payslips as that
\* send counted, all of them sent, the run already Sent; every step of such a
\* send leaves the payslips and the runs as they are and keeps its selection;
\* and it returns the size of the selection as its count.
C20_SendIsIdempotent ==
    [][/\ (resp.op = "send_payslips" /\ resp.code = 200
             /\ BeginsSend(1) /\ loc'[1].req = resp.req) =>
            /\ Len(loc'[1].cursor) = resp.body.count
            /\ SendsNothingNew(1)'
       /\ SendsNothingNew(1) =>
            /\ payslip' = payslip
            /\ payroll' = payroll
            /\ MarksPayslip(1) => (SendsNothingNew(1)' /\ loc'[1].cursor = loc[1].cursor)
            /\ ReturnsSend(1) =>
                 /\ resp'.code = 200
                 /\ resp'.req = loc[1].req
                 /\ resp'.body.count = Len(loc[1].cursor)]_vars

C20_Witness ==
    /\ SendsNothingNew(1)
    /\ loc[1].req.payroll_id # ""
    /\ Len(loc[1].cursor) >= 2
    /\ loc[1].count = Len(loc[1].cursor)
====
